---- MODULE Spec2Model ----
(***************************************************************************)
(* Job queue of src/index.ts: the three tables (jobs, workers,            *)
(* log_messages) and the resolver's operations.  Every operation that     *)
(* awaits the store is split at its awaits: between two awaits of one     *)
(* call the steps of any other call may run.                              *)
(*                                                                         *)
(* The transaction of getJob gives no isolation between its read and its  *)
(* write: the entity is saved with job.save(), the entity's own           *)
(* connection-wide save, and the condition status = waiting is not        *)
(* repeated in the write.                                                  *)
(*                                                                         *)
(* Spec: the mutations, overlapping in every way.  ClaimSpec: getJob calls *)
(* on a store of K waiting jobs.  SeqSpec: the same, one call at a time.   *)
(* FailSpec: Spec with queries that throw.  ListSpec: the two list queries *)
(* at any moment between and during mutations that arrive one at a time.   *)
(***************************************************************************)
EXTENDS Integers, Sequences, FiniteSets, TLC

VARIABLES jobs, workers, logs, calls, logCalls, listed

vars == <<jobs, workers, logs, calls, logCalls, listed>>

\* ------------------------------------------------------------------ bounds
\* the number of requests (of any kind) the clients send
MaxRequests == 5

\* ------------------------------------------------- optional (nullable) values
None == <<>>
Some(v) == <<v>>
Val(o) == o[1]

\* ------------------------------------------------------------ enum JobStatus
waiting == 100
running == 200
finished == 300

\* @Column({ default: 1000 }) priority; data.priority || 1000
DefaultPriority == 1000

\* ---------------------------------------------------------------- the store
\* ids are generated 1, 2, ... per table; rows are never deleted
JobIds == 1..Len(jobs)
WorkerIds == 1..Len(workers)
LogIds == 1..Len(logs)

\* requests received so far
Requests == Len(jobs) + Len(workers) + Len(calls) + Len(logCalls)

\* inputs of the mutations: an id that exists or the next one, which does not
CreateJobInputs ==
    {[priority |-> None, inData |-> None],
     [priority |-> Some(0), inData |-> Some("in")],
     [priority |-> Some(5), inData |-> None],
     [priority |-> Some(-1), inData |-> Some("in")]}
Texts == {"text"}
WorkerIdInputs == 1..(Len(workers) + 1)
JobIdInputs == 1..(Len(jobs) + 1)

\* manager.findOne(JobWorker, id) / JobWorker.findOne(id)
FindWorkerById(id) == IF id \in WorkerIds THEN Some(workers[id]) ELSE None

\* Job.findOne(id)
FindJobById(id) == IF id \in JobIds THEN Some(jobs[id]) ELSE None

WaitingIds == {j \in JobIds : jobs[j].status = waiting}

Min(S) == CHOOSE x \in S : \A y \in S : x <= y

FindOneAnyStatus == IF JobIds = {} THEN None ELSE Some(jobs[Min(JobIds)])

\* manager.findOne(Job, {where: {status: waiting}}): no ORDER BY; the first
\* row of the table scan, that is the lowest id, and priority plays no part.
FindOneWaiting == IF WaitingIds = {} THEN None ELSE Some(jobs[Min(WaitingIds)])

\* data.priority || 1000
PriorityOrDefault(p) == IF p = None THEN DefaultPriority
                        ELSE IF Val(p) = 0 THEN DefaultPriority ELSE Val(p)

\* new ApolloError(message, code)
ApolloError(entity, id, code) == <<"error", entity, id, code>>
Pending == <<"pending">>
NullResult == <<"null">>
JobResult(job) == <<"job", job>>
MessageResult(m) == <<"message", m>>

IsError(r) == r[1] = "error"
IsJob(r) == r[1] = "job"

\* --------------------------------------------------------------------- Init
Init ==
    /\ jobs = <<>>
    /\ workers = <<>>
    /\ logs = <<>>
    /\ calls = <<>>
    /\ logCalls = <<>>
    /\ listed = <<>>

\* ------------------------------------------------------------ createJobWorker
\* JobWorker.create({name}); await jw.save()
WorkerRow(id) == [id |-> id, createdAt |-> id]

CreateJobWorker ==
    /\ Requests < MaxRequests
    /\ workers' = Append(workers, WorkerRow(Len(workers) + 1))
    /\ UNCHANGED <<jobs, logs, calls, logCalls, listed>>

\* ------------------------------------------------------------------ createJob
\* Job.create({priority, inData, status, name}); createdAt is the row's place
\* in the order of insertion
JobRow(id, data) ==
    [id |-> id,
     priority |-> PriorityOrDefault(data.priority),
     inData |-> data.inData,
     outData |-> None,
     status |-> waiting,
     createdAt |-> id,
     job_worker |-> None]

CreateJobOverwrites(data) ==
    /\ Requests < MaxRequests
    /\ jobs' = IF jobs = <<>> THEN Append(jobs, JobRow(1, data))
               ELSE [jobs EXCEPT ![Len(jobs)] = JobRow(Len(jobs), data)]
    /\ UNCHANGED <<workers, logs, calls, logCalls, listed>>

\* await job.save()
CreateJob(data) ==
    /\ Requests < MaxRequests
    /\ jobs' = Append(jobs, JobRow(Len(jobs) + 1, data))
    /\ UNCHANGED <<workers, logs, calls, logCalls, listed>>

\* --------------------------------------------------------------------- getJob
\* A call is [workerId, pc, job_worker, job, result]: its input, the await it
\* stands at, its two local entities and what it gave the caller.

GetJobNoReturn(w) ==
    /\ Requests < MaxRequests
    /\ LET job_worker == FindWorkerById(w) IN
       calls' = Append(calls,
           [workerId |-> w,
            pc |-> "findJob",
            job_worker |-> IF job_worker = None THEN None
                           ELSE Some(Val(job_worker).id),
            job |-> None,
            result |-> IF job_worker = None
                       THEN ApolloError("JobWorker", w, None) ELSE Pending])
    /\ UNCHANGED <<jobs, workers, logs, logCalls, listed>>

\* the request arrives and the worker lookup returns; a missing worker
\* rejects and leaves the transaction
GetJob(w) ==
    /\ Requests < MaxRequests
    /\ LET job_worker == FindWorkerById(w) IN
       IF job_worker = None
       THEN calls' = Append(calls,
                [workerId |-> w, pc |-> "done", job_worker |-> None,
                 job |-> None, result |-> ApolloError("JobWorker", w, None)])
       ELSE calls' = Append(calls,
                [workerId |-> w, pc |-> "findJob",
                 job_worker |-> Some(Val(job_worker).id),
                 job |-> None, result |-> Pending])
    /\ UNCHANGED <<jobs, workers, logs, logCalls, listed>>

\* job.job_worker = job_worker; job.status = JobStatus.running
ClaimedSkipsRunning(job, job_worker) ==
    [job EXCEPT !.job_worker = job_worker, !.status = finished]

ClaimedWithoutOwner(job, job_worker) ==
    [job EXCEPT !.status = running]

Claimed(job, job_worker) ==
    [job EXCEPT !.job_worker = job_worker, !.status = running]

\* the job lookup returns; no row resolves null, a row is changed in memory
\* (a promise that was rejected stays rejected: a later resolve is ignored)
FindJob(c) ==
    /\ calls[c].pc = "findJob"
    /\ LET job == FindOneWaiting IN
       IF job = None
       THEN calls' = [calls EXCEPT
                ![c].pc = "done",
                ![c].result = IF IsError(@) THEN @ ELSE NullResult]
       ELSE calls' = [calls EXCEPT
                ![c].pc = "save",
                ![c].job = Some(Claimed(Val(job), calls[c].job_worker))]
    /\ UNCHANGED <<jobs, workers, logs, logCalls, listed>>

SaveJobDropsInData(job) == [jobs EXCEPT ![job.id] = [job EXCEPT !.inData = None]]

\* job.save(): the row with the entity's id gets the entity's columns
SaveJob(job) == [jobs EXCEPT ![job.id] = job]

\* await job.save(): the write reaches the store
Save(c) ==
    /\ calls[c].pc = "save"
    /\ jobs' = SaveJob(Val(calls[c].job))
    /\ calls' = [calls EXCEPT ![c].pc = "return"]
    /\ UNCHANGED <<workers, logs, logCalls, listed>>

\* save() returns; resolve(job); return job
Return(c) ==
    /\ calls[c].pc = "return"
    /\ calls' = [calls EXCEPT
            ![c].pc = "done",
            ![c].result = IF IsError(@) THEN @ ELSE JobResult(Val(calls[c].job))]
    /\ UNCHANGED <<jobs, workers, logs, logCalls, listed>>

\* ----------------------------------------------------------- createLogMessage
\* A call is [jobId, workerId, text, pc, job, message, result].

\* the request arrives and Job.findOne(data.jobId) returns
CreateLogMessage(j, w, t) ==
    /\ Requests < MaxRequests
    /\ logCalls' = Append(logCalls,
           [jobId |-> j, workerId |-> w, text |-> t, pc |-> "findWorker",
            job |-> IF FindJobById(j) = None THEN None ELSE Some(j),
            message |-> None, result |-> Pending])
    /\ UNCHANGED <<jobs, workers, logs, calls, listed>>

NewMessageSwapped(c, workerId) ==
    Some([text |-> logCalls[c].text, job |-> workerId,
          job_worker |-> Val(logCalls[c].job)])

\* LogMessage.create({text, job, job_worker})
NewMessage(c, workerId) ==
    Some([text |-> logCalls[c].text, job |-> Val(logCalls[c].job),
          job_worker |-> workerId])

LogFindWorkerUnchecked(c) ==
    /\ logCalls[c].pc = "findWorker"
    /\ IF logCalls[c].job = None
       THEN logCalls' = [logCalls EXCEPT
                ![c].pc = "done",
                ![c].result = ApolloError("Job", logCalls[c].jobId, Some("404"))]
       ELSE logCalls' = [logCalls EXCEPT
                ![c].pc = "save",
                ![c].message = NewMessage(c, logCalls[c].workerId)]
    /\ UNCHANGED <<jobs, workers, logs, calls, listed>>

\* JobWorker.findOne(data.workerId) returns; the two checks, the job first
LogFindWorker(c) ==
    /\ logCalls[c].pc = "findWorker"
    /\ LET jobWorker == FindWorkerById(logCalls[c].workerId) IN
       IF logCalls[c].job = None
       THEN logCalls' = [logCalls EXCEPT
                ![c].pc = "done",
                ![c].result = ApolloError("Job", logCalls[c].jobId, Some("404"))]
       ELSE IF jobWorker = None
       THEN logCalls' = [logCalls EXCEPT
                ![c].pc = "done",
                ![c].result = ApolloError("Worker", logCalls[c].workerId,
                                          Some("404"))]
       ELSE logCalls' = [logCalls EXCEPT
                ![c].pc = "save",
                ![c].message = NewMessage(c, Val(jobWorker).id)]
    /\ UNCHANGED <<jobs, workers, logs, calls, listed>>

LogSaveOverwrites(c) ==
    /\ logCalls[c].pc = "save"
    /\ LET m == Val(logCalls[c].message) IN
       LET row == [id |-> 1, text |-> m.text, job |-> m.job,
                   job_worker |-> m.job_worker, createdAt |-> 1] IN
       /\ logs' = <<row>>
       /\ logCalls' = [logCalls EXCEPT ![c].pc = "done",
                                       ![c].result = MessageResult(row)]
    /\ UNCHANGED <<jobs, workers, calls, listed>>

\* await message.save(); return message
LogSave(c) ==
    /\ logCalls[c].pc = "save"
    /\ LET m == Val(logCalls[c].message) IN
       LET row == [id |-> Len(logs) + 1, text |-> m.text, job |-> m.job,
                   job_worker |-> m.job_worker, createdAt |-> Len(logs) + 1] IN
       /\ logs' = Append(logs, row)
       /\ logCalls' = [logCalls EXCEPT ![c].pc = "done",
                                       ![c].result = MessageResult(row)]
    /\ UNCHANGED <<jobs, workers, calls, listed>>

\* -------------------------------------------------------------- the queries
\* listed is the last response a query gave: <<>>, <<"jobs", rows>> or
\* <<"logMessages", rows>>.  Rows come in id order, like the lookups.

\* the log_messages relation of a job: the rows whose job is that job
LogMessagesOf(j) == SelectSeq(logs, LAMBDA m : m.job = j)

\* the job_worker relation of a job: the worker row it refers to, or null
JobWorkerOf(job) ==
    IF job.job_worker = None THEN None ELSE Some(workers[Val(job.job_worker)])

JobsListingJoinsOnLogId ==
    [j \in JobIds |->
        [job |-> jobs[j],
         log_messages |-> SelectSeq(logs, LAMBDA m : m.id = j),
         job_worker |-> JobWorkerOf(jobs[j])]]

\* Job.find({ relations: ["log_messages", "job_worker"] })
JobsListing ==
    [j \in JobIds |->
        [job |-> jobs[j],
         log_messages |-> LogMessagesOf(j),
         job_worker |-> JobWorkerOf(jobs[j])]]

\* LogMessage.find({ relations: ["job", "job_worker"] })
LogMessagesListing ==
    [l \in LogIds |->
        [message |-> logs[l],
         job |-> jobs[logs[l].job],
         job_worker |-> workers[logs[l].job_worker]]]

JobsQuery ==
    /\ listed' = <<"jobs", JobsListing>>
    /\ UNCHANGED <<jobs, workers, logs, calls, logCalls>>

LogMessagesQuery ==
    /\ listed' = <<"logMessages", LogMessagesListing>>
    /\ UNCHANGED <<jobs, workers, logs, calls, logCalls>>

\* ----------------------------------------------------------------------- Next
Next ==
    \/ CreateJobWorker
    \/ \E data \in CreateJobInputs : CreateJob(data)
    \/ \E w \in WorkerIdInputs : GetJob(w)
    \/ \E c \in DOMAIN calls : FindJob(c)
    \/ \E c \in DOMAIN calls : Save(c)
    \/ \E c \in DOMAIN calls : Return(c)
    \/ \E j \in JobIdInputs, w \in WorkerIdInputs, t \in Texts :
          CreateLogMessage(j, w, t)
    \/ \E c \in DOMAIN logCalls : LogFindWorker(c)
    \/ \E c \in DOMAIN logCalls : LogSave(c)

\* the mutations, overlapping in every way; the queries run in ListSpec
Spec == Init /\ [][Next]_vars

\* ----------------------------------------------- a batch of claims on K jobs
\* The store after K createJob and some createJobWorker requests, no call yet;
\* from there only getJob calls run.
InitClaim ==
    /\ \E k \in 0..MaxRequests, n \in 0..MaxRequests :
          /\ k + n <= MaxRequests
          /\ \E in \in [1..k -> CreateJobInputs] :
                jobs = [j \in 1..k |-> JobRow(j, in[j])]
          /\ workers = [i \in 1..n |-> WorkerRow(i)]
    /\ logs = <<>>
    /\ calls = <<>>
    /\ logCalls = <<>>
    /\ listed = <<>>

NextClaim ==
    \/ \E w \in WorkerIdInputs : GetJob(w)
    \/ \E c \in DOMAIN calls : FindJob(c)
    \/ \E c \in DOMAIN calls : Save(c)
    \/ \E c \in DOMAIN calls : Return(c)

ClaimSpec == InitClaim /\ [][NextClaim]_vars

\* ------------------------------------------------- getJob calls one at a time
NoCallPending == \A c \in DOMAIN calls : calls[c].pc = "done"
NoLogCallPending == \A c \in DOMAIN logCalls : logCalls[c].pc = "done"

\* a getJob request that arrives when every earlier one has been answered
GetJobAlone(w) == NoCallPending /\ GetJob(w)

NextSeq ==
    \/ \E w \in WorkerIdInputs : GetJobAlone(w)
    \/ \E c \in DOMAIN calls : FindJob(c)
    \/ \E c \in DOMAIN calls : Save(c)
    \/ \E c \in DOMAIN calls : Return(c)

SeqSpec == InitClaim /\ [][NextSeq]_vars

\* ---------------------------------------------------- the store fails a query
\* A query that throws inside the transaction rejects the promise of the
\* async executor of new Promise (line 190), which nobody awaits: neither
\* resolve nor reject is called and the call's promise never settles.
WorkerLookupFails(w) ==
    /\ Requests < MaxRequests
    /\ calls' = Append(calls, [workerId |-> w, pc |-> "hung",
                               job_worker |-> None, job |-> None,
                               result |-> Pending])
    /\ UNCHANGED <<jobs, workers, logs, logCalls, listed>>

\* the job lookup or the save throws
StorageFails(c) ==
    /\ calls[c].pc \in {"findJob", "save"}
    /\ calls' = [calls EXCEPT ![c].pc = "hung"]
    /\ UNCHANGED <<jobs, workers, logs, logCalls, listed>>

NextFail ==
    \/ Next
    \/ \E w \in WorkerIdInputs : WorkerLookupFails(w)
    \/ \E c \in DOMAIN calls : StorageFails(c)

FailSpec == Init /\ [][NextFail]_vars

\* ------------------------------------------- the queries between the requests
\* The mutations arrive one at a time, each when the one before is answered;
\* a query runs at any moment, also between the steps of a mutation.
Quiet == NoCallPending /\ NoLogCallPending

NextList ==
    \/ Quiet /\ CreateJobWorker
    \/ \E data \in CreateJobInputs : Quiet /\ CreateJob(data)
    \/ \E w \in WorkerIdInputs : Quiet /\ GetJob(w)
    \/ \E c \in DOMAIN calls : FindJob(c)
    \/ \E c \in DOMAIN calls : Save(c)
    \/ \E c \in DOMAIN calls : Return(c)
    \/ \E j \in JobIdInputs, w \in WorkerIdInputs, t \in Texts :
          Quiet /\ CreateLogMessage(j, w, t)
    \/ \E c \in DOMAIN logCalls : LogFindWorker(c)
    \/ \E c \in DOMAIN logCalls : LogSave(c)
    \/ JobsQuery
    \/ LogMessagesQuery

ListSpec == Init /\ [][NextList]_vars

\* ======================================================== the properties
RunningIds == {j \in JobIds : jobs[j].status = running}
ReturnedJob(c) == calls[c].result[2]
JobReturns == {c \in DOMAIN calls : IsJob(calls[c].result)}

\* ----------------------------------------------------------------------- C1
\* C1: under any interleaving of getJob calls each job is assigned to at most
\* one worker over its whole life: a job that has an owner keeps that owner
\* in every step, and no two calls have both returned the same job.
OwnerKept ==
    \A j \in JobIds :
        jobs[j].job_worker # None => jobs'[j].job_worker = jobs[j].job_worker

NoJobReturnedTwice ==
    \A c1, c2 \in JobReturns :
        c1 # c2 => ReturnedJob(c1).id # ReturnedJob(c2).id

C1_ClaimMutualExclusion == [][OwnerKept /\ NoJobReturnedTwice']_vars

\* ----------------------------------------------------------------------- C2
MinOf(a, b) == IF a <= b THEN a ELSE b
AllCallsDone == \A c \in DOMAIN calls : calls[c].pc = "done"
AllByExistingWorkers == \A c \in DOMAIN calls : calls[c].workerId \in WorkerIds

\* C2: from K waiting jobs and no job created meanwhile (ClaimSpec), once C
\* getJob calls by existing workers have all completed, exactly min(K, C)
\* jobs are running, exactly min(K, C) calls returned a job and the other
\* calls returned null.
C2_ClaimCount ==
    (AllCallsDone /\ AllByExistingWorkers) =>
        /\ Cardinality(RunningIds) = MinOf(Len(jobs), Len(calls))
        /\ Cardinality(JobReturns) = MinOf(Len(jobs), Len(calls))
        /\ \A c \in DOMAIN calls \ JobReturns : calls[c].result = NullResult

\* ----------------------------------------------------------------------- C3
\* ascending priority value, then earliest creation, then ascending id
Before(a, b) ==
    \/ a.priority < b.priority
    \/ a.priority = b.priority /\ a.createdAt < b.createdAt
    \/ a.priority = b.priority /\ a.createdAt = b.createdAt /\ a.id < b.id

\* the step in which call c selects a job
Selects(c) == calls[c].pc = "findJob" /\ calls'[c].pc = "save"

\* C3: the job a getJob call selects is the minimum, under Before, of the
\* jobs that are waiting at the moment of selection.
C3_SelectsByPriority ==
    [][\A c \in DOMAIN calls :
          Selects(c) =>
              \A j \in WaitingIds :
                  ~Before(jobs[j], jobs[Val(calls'[c].job).id])]_vars

\* ----------------------------------------------------------------------- C4
\* the step touches call c: it starts it or moves it
Touches(c) == c \notin DOMAIN calls \/ calls'[c] # calls[c]

\* C4: a getJob call whose workerId names no existing worker ends with the
\* error naming that worker; a call that has failed is done, has read no job,
\* and the step that fails it changes no job.
C4_MissingWorkerNotFound ==
    [][\A c \in DOMAIN calls' :
          /\ (c \notin DOMAIN calls /\ calls'[c].workerId \notin WorkerIds) =>
                calls'[c].result =
                    ApolloError("JobWorker", calls'[c].workerId, None)
          /\ (Touches(c) /\ IsError(calls'[c].result)) =>
                /\ c \notin DOMAIN calls
                /\ calls'[c].workerId \notin WorkerIds
                /\ calls'[c].pc = "done"
                /\ calls'[c].job = None
                /\ jobs' = jobs]_vars

C4_Witness ==
    \E c \in DOMAIN calls :
        /\ IsError(calls[c].result)
        /\ WaitingIds # {}
        /\ RunningIds # {}

\* ----------------------------------------------------------------------- C5
\* C5: when the job lookup of a getJob call (its worker exists) finds no
\* waiting job, the call ends with null, which is no error, and the store is
\* unchanged; null is returned in no other case.
C5_NoWaitingJobNull ==
    [][\A c \in DOMAIN calls :
          (calls[c].pc = "findJob" /\ calls'[c] # calls[c]) =>
              /\ (WaitingIds = {}) <=> (calls'[c].result = NullResult)
              /\ (WaitingIds = {}) =>
                    /\ calls'[c].pc = "done"
                    /\ ~IsError(calls'[c].result)
                    /\ ~IsJob(calls'[c].result)
                    /\ UNCHANGED <<jobs, workers, logs>>]_vars

C5_Witness ==
    \E c \in DOMAIN calls :
        /\ calls[c].result = NullResult
        /\ calls[c].workerId \in WorkerIds
        /\ RunningIds # {}

\* ----------------------------------------------------------------------- C6
\* the step in which call c returns its job to the caller
Returns(c) == calls[c].pc = "return" /\ calls'[c].pc = "done"

\* C6: when getJob(w) returns job j, the stored row of j is running and
\* owned by w at that moment.
C6_ReturnedJobIsOwned ==
    [][\A c \in DOMAIN calls :
          Returns(c) =>
              LET j == ReturnedJob(c)'.id IN
              /\ jobs'[j].status = running
              /\ jobs'[j].job_worker = Some(calls[c].workerId)]_vars

\* ----------------------------------------------------------------------- C7
LegalStatusStep(a, b) ==
    \/ a = b
    \/ a = waiting /\ b = running
    \/ a = running /\ b = finished

\* the step is the save of a getJob call on job j
SaveStepOn(j) ==
    \E c \in DOMAIN calls :
        /\ calls[c].pc = "save"
        /\ calls'[c].pc = "return"
        /\ Val(calls[c].job).id = j

\* C7: in every step every job's status stays or moves waiting -> running or
\* running -> finished, and a step that changes a job's status or owner is
\* the save of a getJob call on that job.
C7_LifecycleMonotone ==
    [][\A j \in JobIds :
          /\ j \in DOMAIN jobs'
          /\ LegalStatusStep(jobs[j].status, jobs'[j].status)
          /\ (\/ jobs'[j].status # jobs[j].status
              \/ jobs'[j].job_worker # jobs[j].job_worker) => SaveStepOn(j)]_vars

C7_Witness ==
    /\ RunningIds # {}
    /\ WaitingIds # {}
    /\ logs # <<>>

\* ----------------------------------------------------------------------- C8
\* C8: in every reachable state a job has an owner if and only if it is
\* running or finished, and the owner is an existing worker.
C8_OwnerIffClaimed ==
    \A j \in JobIds :
        /\ (jobs[j].job_worker # None) <=> (jobs[j].status \in {running, finished})
        /\ jobs[j].job_worker # None => Val(jobs[j].job_worker) \in WorkerIds

C8_Witness ==
    /\ RunningIds # {}
    /\ WaitingIds # {}
    /\ \E c \in DOMAIN calls : calls[c].pc = "save"

\* ----------------------------------------------------------------------- C9
\* the step in which log call c makes its two checks
Checks(c) ==
    /\ c \in DOMAIN logCalls
    /\ logCalls[c].pc = "findWorker"
    /\ logCalls'[c] # logCalls[c]

\* C9: createLogMessage fails exactly when its job was missing at the job
\* lookup or its worker is missing at the checks; the error has code 404 and
\* names the job with its id when the job was missing and otherwise the
\* worker with its id; the failed call built no message and is done, and the
\* log messages change only in the save of a call that found both.
C9_AppendLogNotFound ==
    [][/\ \A c \in DOMAIN logCalls' :
             LET call == logCalls'[c] IN
             /\ c \notin DOMAIN logCalls =>
                   ((call.job = None) <=> (call.jobId \notin JobIds))
             /\ Checks(c) =>
                   LET missingJob == call.job = None
                       missingWorker == call.workerId \notin WorkerIds IN
                   /\ (missingJob \/ missingWorker) <=> IsError(call.result)
                   /\ IsError(call.result) =>
                         /\ call.pc = "done"
                         /\ call.message = None
                         /\ logs' = logs
                         /\ call.result[4] = Some("404")
                         /\ \/ /\ call.result[2] = "Job"
                               /\ call.result[3] = call.jobId
                               /\ missingJob
                            \/ /\ call.result[2] = "Worker"
                               /\ call.result[3] = call.workerId
                               /\ missingWorker
                               /\ ~missingJob
       /\ logs' # logs =>
             \E c \in DOMAIN logCalls :
                 /\ logCalls[c].pc = "save"
                 /\ ~IsError(logCalls'[c].result)
                 /\ Len(logs') = Len(logs) + 1]_vars

C9_Witness ==
    \E c \in DOMAIN logCalls :
        /\ logCalls[c].result =
               ApolloError("Worker", logCalls[c].workerId, Some("404"))
        /\ logCalls[c].job # None
        /\ logCalls[c].workerId \notin WorkerIds

\* ---------------------------------------------------------------------- C10
\* C10: the core has an operation that completes a job: whenever a job is
\* running, some step of the system sets its status to finished.
C10_RunningCanFinish ==
    \A j \in JobIds :
        jobs[j].status = running =>
            ENABLED (Next /\ jobs'[j].status = finished)

\* ---------------------------------------------------------------------- C11
\* C11: a createJob step adds exactly one job, with an id no job had, status
\* waiting, no owner, the input's inData and priority 1000 when the input
\* omits the priority; the jobs that existed, the workers and the log
\* messages are unchanged.
C11_CreateJobAddsWaitingJob ==
    [][\A data \in CreateJobInputs :
          CreateJob(data) =>
              LET new == jobs'[Len(jobs')] IN
              /\ Len(jobs') = Len(jobs) + 1
              /\ \A j \in JobIds : jobs'[j] = jobs[j] /\ jobs[j].id # new.id
              /\ new.status = waiting
              /\ new.job_worker = None
              /\ new.inData = data.inData
              /\ data.priority = None => new.priority = 1000
              /\ UNCHANGED <<workers, logs>>]_vars

C11_Witness ==
    \E j \in JobIds :
        /\ jobs[j].priority = 1000
        /\ jobs[j].inData = None
        /\ jobs[j].status = waiting
        /\ \E i \in RunningIds : i < j
        /\ logs # <<>>

\* ---------------------------------------------------------------------- C12
\* the step in which log call c saves its message
SavesMessage(c) ==
    /\ c \in DOMAIN logCalls
    /\ logCalls[c].pc = "save"
    /\ logCalls'[c] # logCalls[c]

\* C12: createLogMessage whose job was found and whose worker exists does not
\* fail, whatever the job's status and owner; its save adds exactly one log
\* message with the call's text, linked to the call's job and worker, returns
\* it, and leaves every job and every worker unchanged.
C12_AppendLogAddsOneMessage ==
    [][\A c \in DOMAIN logCalls :
          LET call == logCalls[c] IN
          /\ (Checks(c) /\ call.job # None /\ call.workerId \in WorkerIds) =>
                /\ ~IsError(logCalls'[c].result)
                /\ logCalls'[c].pc = "save"
                /\ logCalls'[c].message =
                       Some([text |-> call.text, job |-> call.jobId,
                             job_worker |-> call.workerId])
          /\ SavesMessage(c) =>
                LET new == logs'[Len(logs')] IN
                /\ Len(logs') = Len(logs) + 1
                /\ \A l \in LogIds : logs'[l] = logs[l] /\ logs[l].id # new.id
                /\ new.text = call.text
                /\ new.job = call.jobId
                /\ new.job_worker = call.workerId
                /\ logCalls'[c].result = MessageResult(new)
                /\ logCalls'[c].pc = "done"
                /\ UNCHANGED <<jobs, workers>>]_vars

\* a message was appended to a running job by a worker that does not own it
C12_Witness ==
    \E l \in LogIds :
        /\ jobs[logs[l].job].status = running
        /\ jobs[logs[l].job].job_worker # Some(logs[l].job_worker)
        /\ \E c \in DOMAIN logCalls : logCalls[c].result = MessageResult(logs[l])

\* ---------------------------------------------------------------------- C13
LogReferencesExist ==
    \A l \in LogIds : logs[l].job \in JobIds /\ logs[l].job_worker \in WorkerIds

C14_PriorityInDataKept ==
    [][\A j \in JobIds :
          /\ jobs'[j].priority = jobs[j].priority
          /\ jobs'[j].inData = jobs[j].inData]_vars

\* a job with an inData and a priority of its own was saved by two calls
C14_Witness ==
    \E j \in JobIds, c1, c2 \in DOMAIN calls :
        /\ c1 # c2
        /\ jobs[j].inData = Some("in")
        /\ jobs[j].priority = -1
        /\ calls[c1].pc \in {"return", "done"} /\ calls[c1].job # None
        /\ calls[c2].pc \in {"return", "done"} /\ calls[c2].job # None
        /\ Val(calls[c1].job).id = j
        /\ Val(calls[c2].job).id = j

\* ---------------------------------------------------------------------- C18
\* C18: a createJob step whose input gives a priority stores that priority,
\* whatever integer it is.
C18_GivenPriorityStored ==
    [][\A data \in CreateJobInputs :
          (CreateJob(data) /\ data.priority # None) =>
              jobs'[Len(jobs')].priority = Val(data.priority)]_vars

\* ---------------------------------------------------------------------- C16
Outcomes(c) ==
    \/ IsJob(calls[c].result)
    \/ calls[c].result = NullResult
    \/ IsError(calls[c].result)

\* C16: every getJob call has reported a job, null or an error, or can still
\* take a step towards it, also after a query of its transaction failed
\* (FailSpec): no call stays pending with nothing left to run.
C16_EveryCallSettles ==
    \A c \in DOMAIN calls :
        \/ calls[c].pc = "done" /\ Outcomes(c)
        \/ calls[c].result = Pending
               /\ ENABLED (FindJob(c) \/ Save(c) \/ Return(c))

\* ---------------------------------------------------------------------- C17
GoodCalls == {c \in DOMAIN calls : calls[c].workerId \in WorkerIds}
Rank(c) == Cardinality({d \in GoodCalls : d <= c})

\* C17: when getJob calls do not overlap (SeqSpec), from K waiting jobs and
\* no job created: a call that has selected a job selected a waiting one;
\* the first K calls by existing workers each return a job, all different,
\* and every later one returns null.
C17_SequentialClaims ==
    \A c \in GoodCalls :
        /\ calls[c].pc = "save" => jobs[Val(calls[c].job).id].status = waiting
        /\ calls[c].pc = "done" =>
              /\ Rank(c) <= Len(jobs) =>
                    /\ IsJob(calls[c].result)
                    /\ \A d \in GoodCalls :
                          d < c => ReturnedJob(d).id # ReturnedJob(c).id
              /\ Rank(c) > Len(jobs) => calls[c].result = NullResult

C17_Witness ==
    /\ NoCallPending
    /\ \E c1, c2 \in JobReturns : ReturnedJob(c1).id # ReturnedJob(c2).id

\* ---------------------------------------------------------------------- C15
Range(f) == {f[i] : i \in DOMAIN f}

\* rows lists exactly the stored jobs, each with its owner and its messages
ExactJobsListing(rows) ==
    /\ DOMAIN rows = JobIds
    /\ \A j \in JobIds :
          /\ rows[j].job = jobs[j]
          /\ rows[j].job_worker = None <=> jobs[j].job_worker = None
          /\ rows[j].job_worker # None =>
                /\ Val(jobs[j].job_worker) \in WorkerIds
                /\ Val(rows[j].job_worker) = workers[Val(jobs[j].job_worker)]
          /\ Range(rows[j].log_messages) = {logs[l] : l \in {k \in LogIds : logs[k].job = j}}
          /\ Len(rows[j].log_messages) = Cardinality({k \in LogIds : logs[k].job = j})

\* rows lists exactly the stored log messages, each with its job and worker
ExactLogMessagesListing(rows) ==
    /\ DOMAIN rows = LogIds
    /\ \A l \in LogIds :
          /\ rows[l].message = logs[l]
          /\ rows[l].job.id = logs[l].job /\ rows[l].job = jobs[logs[l].job]
          /\ rows[l].job_worker.id = logs[l].job_worker
          /\ rows[l].job_worker = workers[logs[l].job_worker]

ExactListing(response) ==
    /\ response[1] = "jobs" => ExactJobsListing(response[2])
    /\ response[1] = "logMessages" => ExactLogMessagesListing(response[2])

\* C15: a step that gives a new query response changes no job, worker, log
\* message or call; the response lists exactly what is stored, with the
\* relations; and it differs from the response before it, when that was of
\* the same query, only if the store no longer is what that response listed
\* (two listings of an unchanged store are the same).
C15_ListingsReadOnly ==
    [][listed' # listed =>
          /\ UNCHANGED <<jobs, workers, logs, calls, logCalls>>
          /\ listed'[1] \in {"jobs", "logMessages"}
          /\ ExactListing(listed')
          /\ (listed # <<>> /\ listed[1] = listed'[1]) => ~ExactListing(listed)]_vars

\* the last listing of the jobs shows an owned job with a message, as stored
C15_Witness ==
    /\ listed # <<>>
    /\ listed[1] = "jobs"
    /\ ExactJobsListing(listed[2])
    /\ \E j \in JobIds :
          /\ listed[2][j].job_worker # None
          /\ listed[2][j].log_messages # <<>>

====
